---- MODULE Spec2Model ----
(***************************************************************************)
(* Model of the payment-proofs crate: the block-chunked base58 codec       *)
(* (base58.rs), the shared-key derivations (shared_key_derivations.rs)     *)
(* and the OutProof prove / verify / write / read operations               *)
(* (out_proof.rs).                                                         *)
(*                                                                         *)
(* Bytes are naturals in 0..255, strings are sequences of ASCII codes, a   *)
(* u64 is its 8-byte big-endian representation (u64::to_be_bytes), so that *)
(* the 64-bit width of the accumulators is kept exactly.                   *)
(***************************************************************************)
EXTENDS Integers, Sequences, FiniteSets, TLC

VARIABLES
  overflow_checks, \* build profile: TRUE = arithmetic overflow panics (debug)
  b58_pc,          \* position of the codec round: start / encoded / tampered / decoded
  b58_in,          \* the bytes handed to encode
  b58_text,        \* the string handed to decode
  b58_tamper,      \* what was done to the string between encode and decode
  b58_out,         \* decode's result
  pf_pc,           \* position of the proof round: start / proved / verified
  pf_in,           \* the caller's inputs: address, ephemeral key, message, transaction, output index
  pf_prove,        \* what prove computed: the proof and the commitments it hashed
  pf_verify,       \* what verify computed: its result and the candidates it tried
  ser_pc,          \* position of the serialization round: build / written / tampered / read
  ser_proofs,      \* the list of proofs handed to write
  ser_text,        \* the string handed to read
  ser_tamper,      \* what was done to the string between write and read
  ser_out          \* read's result

vars == <<overflow_checks, b58_pc, b58_in, b58_text, b58_tamper, b58_out,
          pf_pc, pf_in, pf_prove, pf_verify,
          ser_pc, ser_proofs, ser_text, ser_tamper, ser_out>>

b58_vars == <<b58_pc, b58_in, b58_text, b58_tamper, b58_out>>
pf_vars == <<pf_pc, pf_in, pf_prove, pf_verify>>
ser_vars == <<ser_pc, ser_proofs, ser_text, ser_tamper, ser_out>>

----------------------------------------------------------------------------
(* Option / panic outcomes of a call *)

Some(v) == [tag |-> "Some", val |-> v]
None == [tag |-> "None", val |-> <<>>]
Panic == [tag |-> "Panic", val |-> <<>>]
NotRun == [tag |-> "NotRun", val |-> <<>>]

----------------------------------------------------------------------------
(* base58.rs *)

ALPHABET_LEN == 58

\* b"123456789ABCDEFGHJKLMNPQRSTUVWXYZabcdefghijkmnopqrstuvwxyz"
ALPHABET ==
  <<49, 50, 51, 52, 53, 54, 55, 56, 57,
    65, 66, 67, 68, 69, 70, 71, 72,
    74, 75, 76, 77, 78,
    80, 81, 82, 83, 84, 85, 86, 87, 88, 89, 90,
    97, 98, 99, 100, 101, 102, 103, 104, 105, 106, 107,
    109, 110, 111, 112, 113, 114, 115, 116, 117, 118, 119, 120, 121, 122>>

BLOCK_LEN == 8

ENCODED_BLOCK_LEN == 11

\* slice.chunks(n): consecutive pieces of n elements, the last one shorter
RECURSIVE chunks(_, _)
chunks(s, n) ==
  IF Len(s) = 0 THEN <<>>
  ELSE IF Len(s) <= n THEN <<s>>
  ELSE <<SubSeq(s, 1, n)>> \o chunks(SubSeq(s, n + 1, Len(s)), n)

\* Big-endian multi-byte arithmetic: v * m + a, byte by byte from the least
\* significant byte; carry is what does not fit the width of v
RECURSIVE MulAddStep(_, _, _, _)
MulAddStep(v, i, m, carry) ==
  IF i = 0 THEN [v |-> v, carry |-> carry]
  ELSE LET cur == v[i] * m + carry
       IN  MulAddStep([v EXCEPT ![i] = cur % 256], i - 1, m, cur \div 256)

MulAdd(v, m, a) == MulAddStep(v, Len(v), m, a)

\* Big-endian multi-byte division by d: quotient (same width) and remainder
RECURSIVE DivModStep(_, _, _, _)
DivModStep(v, i, d, rem) ==
  IF i > Len(v) THEN [q |-> v, r |-> rem]
  ELSE LET cur == rem * 256 + v[i]
       IN  DivModStep([v EXCEPT ![i] = cur \div d], i + 1, d, cur % d)

DivMod(v, d) == DivModStep(v, 1, d, 0)

IsZero(v) == \A i \in 1..Len(v) : v[i] = 0

\* the u64 with the given number of low bits set: (1 << bits) - 1, or u64::MAX
MaxForBits(bits) ==
  [i \in 1..BLOCK_LEN |-> IF i > BLOCK_LEN - (bits \div 8) THEN 255 ELSE 0]

\* while max != 0 { max /= ALPHABET_LEN; i += 1; }
RECURSIVE CountDigits(_, _)
CountDigits(max, i) ==
  IF IsZero(max) THEN i ELSE CountDigits(DivMod(max, ALPHABET_LEN).q, i + 1)

encoded_len_for_bytes(bytes) ==
  LET i == (bytes \div BLOCK_LEN) * ENCODED_BLOCK_LEN
      rest == bytes % BLOCK_LEN
      bits == rest * 8
  IN  CountDigits(MaxForBits(bits), i)

\* encoded_len_for_bytes of the lengths of a chunk, computed once
EncodedLenOfChunk == [n \in 0..BLOCK_LEN |-> encoded_len_for_bytes(n)]

\* (mutant) the chunk copied to the front of the buffer, the padding after it
fixed_len_chunk_padded_after(chunk) ==
  [i \in 1..BLOCK_LEN |-> IF i <= Len(chunk) THEN chunk[i] ELSE 0]

\* fixed_len_chunk[(BLOCK_LEN - chunk.len()) ..].copy_from_slice(chunk)
fixed_len_chunk(chunk) ==
  [i \in 1..BLOCK_LEN |->
     IF i <= BLOCK_LEN - Len(chunk) THEN 0 ELSE chunk[i - (BLOCK_LEN - Len(chunk))]]

\* while val > 0 { chunk_str[i] = ALPHABET[val % 58]; i += 1; val /= 58; }
RECURSIVE FillDigits(_, _, _)
FillDigits(val, chunk_str, i) ==
  IF IsZero(val) THEN chunk_str
  ELSE LET dm == DivMod(val, ALPHABET_LEN)
       IN  FillDigits(dm.q, [chunk_str EXCEPT ![i] = ALPHABET[dm.r + 1]], i + 1)

Reverse(s) == [i \in 1..Len(s) |-> s[Len(s) + 1 - i]]

encode_chunk(chunk) ==
  LET val == fixed_len_chunk(chunk)
      chunk_str == FillDigits(val, [i \in 1..ENCODED_BLOCK_LEN |-> ALPHABET[1]], 1)
  IN  Reverse(SubSeq(chunk_str, 1, EncodedLenOfChunk[Len(chunk)]))

RECURSIVE ConcatMap(_, _)
ConcatMap(cs, i) ==
  IF i > Len(cs) THEN <<>> ELSE encode_chunk(cs[i]) \o ConcatMap(cs, i + 1)

encode(bytes) == ConcatMap(chunks(bytes, BLOCK_LEN), 1)

\* ALPHABET.iter().position(|a| a == this_char) for every byte: 0-based, -1
\* when absent
AlphabetPosition ==
  [this_char \in 0..255 |->
     IF \E i \in 1..Len(ALPHABET) : ALPHABET[i] = this_char
     THEN (CHOOSE i \in 1..Len(ALPHABET) : ALPHABET[i] = this_char) - 1
     ELSE -1]

\* (mutant) a character outside the alphabet read as the digit 0
position_or_zero(this_char) ==
  IF AlphabetPosition[this_char] < 0 THEN 0 ELSE AlphabetPosition[this_char]

position(this_char) == AlphabetPosition[this_char]

\* sum = sum.checked_mul(ALPHABET_LEN)?;  sum += position(this_char)?
\* The multiplication is checked; the addition is a plain u64 +=, which panics
\* on overflow when the build has overflow checks and wraps otherwise.
RECURSIVE chunk_sum(_, _, _, _)
chunk_sum(chunk, i, sum, oc) ==
  IF i > Len(chunk) THEN Some(sum)
  ELSE LET m == MulAdd(sum, ALPHABET_LEN, 0)
           pos == position(chunk[i])
       IN  IF m.carry # 0 THEN None
           ELSE IF pos < 0 THEN None
           ELSE LET a == MulAdd(m.v, 1, pos)
                IN  IF a.carry # 0 /\ oc THEN Panic
                    ELSE chunk_sum(chunk, i + 1, a.v, oc)

\* let mut used_bytes = None;
\* for i in 1 ..= BLOCK_LEN { if encoded_len_for_bytes(i) == chunk.len() { .. break } }
RECURSIVE used_bytes_from(_, _)
used_bytes_from(i, len) ==
  IF i > BLOCK_LEN THEN None
  ELSE IF EncodedLenOfChunk[i] = len THEN Some(i)
  ELSE used_bytes_from(i + 1, len)

used_bytes(len) == used_bytes_from(1, len)

\* one iteration of decode's loop: the bytes of a chunk, None (via ?) or a panic
\* (the unchecked addition, or used_bytes.unwrap() on None)
decode_chunk(chunk, oc) ==
  LET sum == chunk_sum(chunk, 1, [i \in 1..BLOCK_LEN |-> 0], oc)
      used == used_bytes(Len(chunk))
  IN  IF sum.tag # "Some" THEN sum
      ELSE IF used.tag = "None" THEN Panic
      ELSE Some(SubSeq(sum.val, BLOCK_LEN - used.val + 1, BLOCK_LEN))

RECURSIVE decode_chunks(_, _, _, _)
decode_chunks(cs, i, res, oc) ==
  IF i > Len(cs) THEN Some(res)
  ELSE LET d == decode_chunk(cs[i], oc)
       IN  IF d.tag # "Some" THEN d
           ELSE decode_chunks(cs, i + 1, res \o d.val, oc)

decode(data, oc) == decode_chunks(chunks(data, ENCODED_BLOCK_LEN), 1, <<>>, oc)

----------------------------------------------------------------------------
(* The collaborators of the crate, abstracted: the curve group and its      *)
(* scalar field (curve25519_dalek), the hash (keccak256) and the Monero      *)
(* encodings (monero_wallet::io). The group is the cyclic group of order     *)
(* ScalarOrder; a point is its discrete logarithm to the base point, which   *)
(* keeps every group law the crate relies on. Encodings are injective and    *)
(* partial on decoding, as compressed points and canonical scalars are.      *)

ScalarOrder == 13

Scalars == 0..(ScalarOrder - 1)

Points == 0..(ScalarOrder - 1)

ED25519_BASEPOINT_POINT == 1

\* EdwardsPoint * Scalar, EdwardsPoint - EdwardsPoint, EdwardsPoint + EdwardsPoint
PointMul(p, s) == (p * s) % ScalarOrder

PointSub(p, q) == (p + ScalarOrder - q) % ScalarOrder

PointAdd(p, q) == (p + q) % ScalarOrder

\* Scalar * Scalar, Scalar - Scalar
ScalarMul(a, b) == (a * b) % ScalarOrder

ScalarSub(a, b) == (a + ScalarOrder - b) % ScalarOrder

\* EdwardsPoint::mul_by_cofactor
mul_by_cofactor(p) == PointMul(p, 8 % ScalarOrder)

\* EdwardsPoint::compress().to_bytes(): 32 bytes, one encoding per point. As on
\* the curve, about every second value of the varying byte is a point.
PointBytes(p) == [i \in 1..32 |-> IF i = 8 THEN 2 * p + 1 ELSE (7 * i + 3) % 256]

\* monero_wallet::io::read_point: the point of a canonical encoding, else an error
read_point(bytes) ==
  IF Len(bytes) >= 32 /\ \E p \in Points : PointBytes(p) = SubSeq(bytes, 1, 32)
  THEN Some(CHOOSE p \in Points : PointBytes(p) = SubSeq(bytes, 1, 32))
  ELSE None

\* Scalar::to_bytes(): 32 bytes, little-endian
ScalarBytes(s) ==
  [i \in 1..32 |-> IF i = 1 THEN s % 256 ELSE IF i = 2 THEN ((s \div 256) % 256) ELSE 0]

\* the little-endian integer of a byte string, reduced modulo m
RECURSIVE LeMod(_, _, _, _)
LeMod(bytes, i, m, acc) ==
  IF i = 0 THEN acc ELSE LeMod(bytes, i - 1, m, (acc * 256 + bytes[i]) % m)

\* Scalar::from_bytes_mod_order
from_bytes_mod_order(bytes) == LeMod(bytes, Len(bytes), ScalarOrder, 0)

\* monero_wallet::io::read_scalar: the scalar of a canonical (reduced) encoding,
\* else an error
read_scalar(bytes) ==
  IF /\ Len(bytes) >= 32
     /\ \A i \in 3..32 : bytes[i] = 0
     /\ bytes[1] + 256 * bytes[2] < ScalarOrder
  THEN Some(bytes[1] + 256 * bytes[2])
  ELSE None

\* keccak256: a 32-byte digest of the whole input, order-sensitive, absorbed
\* block by block. The state h is never negative: testing it makes the
\* evaluation compute each step before the next one.
RECURSIVE AbsorbBytes(_, _, _)
AbsorbBytes(block, i, h) ==
  IF i > Len(block) \/ h < 0 THEN h
  ELSE AbsorbBytes(block, i + 1, (h * 131 + block[i] + 1) % 65521)

RECURSIVE AbsorbBlocks(_, _, _)
AbsorbBlocks(blocks, i, h) ==
  IF i > Len(blocks) \/ h < 0 THEN h
  ELSE AbsorbBlocks(blocks, i + 1, AbsorbBytes(blocks[i], 1, h))

keccak256(data) ==
  LET h == AbsorbBlocks(chunks(data, 32), 1, 7)
  IN  [i \in 1..32 |-> (h * (i + 2) + (h \div 256) * i) % 256]

\* monero_wallet::primitives::keccak256_to_scalar
keccak256_to_scalar(data) == from_bytes_mod_order(keccak256(data))

\* monero_wallet::io::write_varint
RECURSIVE write_varint(_)
write_varint(n) ==
  IF n < 128 THEN <<n>> ELSE <<(n % 128) + 128>> \o write_varint(n \div 128)

\* bitwise exclusive or of two bytes, and of two byte strings of one length
RECURSIVE XorByte(_, _)
XorByte(a, b) ==
  IF a = 0 /\ b = 0 THEN 0
  ELSE (((a % 2) + (b % 2)) % 2) + 2 * XorByte(a \div 2, b \div 2)

XorBytes(a, b) == [i \in 1..Len(a) |-> XorByte(a[i], b[i])]

\* the second generator of Pedersen commitments
H == 6

\* Commitment::calculate: mask * G + amount * H, the amount a little-endian u64
CommitmentCalculate(commitment) ==
  PointAdd(PointMul(ED25519_BASEPOINT_POINT, commitment.mask),
           PointMul(H, from_bytes_mod_order(commitment.amount)))

----------------------------------------------------------------------------
(* shared_key_derivations.rs *)

Str_uniqueness == <<117, 110, 105, 113, 117, 101, 110, 101, 115, 115>>
Str_view_tag == <<118, 105, 101, 119, 95, 116, 97, 103>>
Str_commitment_mask == <<99, 111, 109, 109, 105, 116, 109, 101, 110, 116, 95, 109, 97, 115, 107>>
Str_amount == <<97, 109, 111, 117, 110, 116>>

\* an input is Input::Gen(height) or Input::ToKey { key_image, .. }
RECURSIVE uniqueness_bytes(_, _, _)
uniqueness_bytes(inputs, i, u) ==
  IF i > Len(inputs) THEN u
  ELSE uniqueness_bytes(inputs, i + 1,
         u \o (IF inputs[i].kind = "Gen" THEN write_varint(inputs[i].height)
               ELSE PointBytes(inputs[i].key_image)))

uniqueness(inputs) == keccak256(uniqueness_bytes(inputs, 1, Str_uniqueness))

\* uniqueness is an Option<[u8; 32]>
output_derivations(uniq, ecdh, o) ==
  LET output_derivation == PointBytes(mul_by_cofactor(ecdh)) \o write_varint(o)
      view_tag == keccak256(Str_view_tag \o output_derivation)[1]
      with_uniqueness == IF uniq.tag = "Some" THEN uniq.val \o output_derivation
                         ELSE output_derivation
  IN  [view_tag |-> view_tag, shared_key |-> keccak256_to_scalar(with_uniqueness)]

payment_id_xor(ecdh) ==
  SubSeq(keccak256(PointBytes(mul_by_cofactor(ecdh)) \o <<141>>), 1, 8)

commitment_mask(self) == keccak256_to_scalar(Str_commitment_mask \o ScalarBytes(self.shared_key))

\* amount and the result are the 8 little-endian bytes of a u64
compact_amount_encryption(self, amount) ==
  LET amount_mask == keccak256(Str_amount \o ScalarBytes(self.shared_key))
  IN  XorBytes(amount, SubSeq(amount_mask, 1, 8))

\* the Commitment { mask, amount } of an EncryptedAmount
decrypt(self, enc_amount) ==
  IF enc_amount.kind = "Original"
  THEN LET mask_shared_sec == keccak256(ScalarBytes(self.shared_key))
           mask == ScalarSub(from_bytes_mod_order(enc_amount.mask),
                             from_bytes_mod_order(mask_shared_sec))
           amount_shared_sec == keccak256(mask_shared_sec)
           amount_scalar == ScalarSub(from_bytes_mod_order(enc_amount.amount),
                                      from_bytes_mod_order(amount_shared_sec))
       IN  [mask |-> mask, amount |-> SubSeq(ScalarBytes(amount_scalar), 1, 8)]
  ELSE [mask |-> commitment_mask(self),
        amount |-> compact_amount_encryption(self, enc_amount.amount)]

----------------------------------------------------------------------------
(* out_proof.rs *)

Str_OutProofV2 == <<79, 117, 116, 80, 114, 111, 111, 102, 86, 50>>
Str_TXPROOF_V2 == <<84, 88, 80, 82, 79, 79, 70, 95, 86, 50>>
Str_TXPROOF_V2_GUARANTEED ==
  <<84, 88, 80, 82, 79, 79, 70, 95, 86, 50, 95, 71, 85, 65, 82, 65, 78, 84, 69, 69, 68>>

\* An address is [spend, view, subaddress, guaranteed, payment_id], the
\* payment id an Option<[u8; 8]>.
challenge(address, nonce_commitment_generator, nonce_commitment_view_key, ephemeral_key_commitment, ecdh, message) ==
  from_bytes_mod_order(keccak256(
    keccak256(message)
    \o PointBytes(ecdh)
    \o PointBytes(nonce_commitment_generator)
    \o PointBytes(nonce_commitment_view_key)
    \o (IF ~address.guaranteed THEN keccak256(Str_TXPROOF_V2)
        ELSE keccak256(Str_TXPROOF_V2_GUARANTEED))
    \o PointBytes(ephemeral_key_commitment)
    \o PointBytes(address.view)
    \o (IF address.subaddress THEN PointBytes(address.spend)
        ELSE [i \in 1..32 |-> 0])))

\* let commitment_generator =
\*   if address.is_subaddress() { ED25519_BASEPOINT_POINT } else { address.spend() };
prove_commitment_generator(address) ==
  IF address.subaddress THEN ED25519_BASEPOINT_POINT ELSE address.spend

\* prove, the nonce being what Scalar::random(rng) drew. Besides the proof the
\* record keeps the commitments prove hashed.
prove(nonce, address, ephemeral_key, message) ==
  LET commitment_generator == prove_commitment_generator(address)
      nonce_commitment_generator == PointMul(commitment_generator, nonce)
      nonce_commitment_view_key == PointMul(address.view, nonce)
      ephemeral_key_commitment == PointMul(commitment_generator, ephemeral_key)
      ecdh == PointMul(address.view, ephemeral_key)
      c == challenge(address, nonce_commitment_generator, nonce_commitment_view_key,
                     ephemeral_key_commitment, ecdh, message)
      s == ScalarSub(nonce, ScalarMul(c, ephemeral_key))
  IN  [proof |-> [ecdh |-> ecdh, c |-> c, s |-> s],
       commitment_generator |-> commitment_generator,
       nonce_commitment_generator |-> nonce_commitment_generator,
       nonce_commitment_view_key |-> nonce_commitment_view_key,
       ephemeral_key_commitment |-> ephemeral_key_commitment]

verify_commitment_generator(address) ==
  IF address.subaddress THEN ED25519_BASEPOINT_POINT ELSE address.spend

\* keys.into_iter().map(Some).chain(once(additional_keys.and_then(|k| k.get(output_index))))
\* up to the first None
candidate_keys(extra, output_index) ==
  extra.keys \o
    (IF extra.additional.tag = "Some" /\ output_index + 1 <= Len(extra.additional.val)
     THEN <<extra.additional.val[output_index + 1]>> ELSE <<>>)

\* the nonce commitments verify rebuilds for a candidate key, and its challenge
reconstruct(proof, address, key, message) ==
  LET commitment_generator == verify_commitment_generator(address)
      s_commitment_generator == PointMul(commitment_generator, proof.s)
      s_commitment_view_key == PointMul(address.view, proof.s)
      X == PointSub(s_commitment_generator, PointMul(key, proof.c))
      Y == PointSub(s_commitment_view_key, PointMul(proof.ecdh, proof.c))
  IN  [key |-> key, X |-> X, Y |-> Y,
       c |-> challenge(address, X, Y, key, proof.ecdh, message)]

\* PaymentId ^ [u8; 8]: an encrypted id is xored, an unencrypted one is left
PaymentIdXor(payment_id, mask) ==
  IF payment_id.kind = "Encrypted"
  THEN [kind |-> "Encrypted", id |-> XorBytes(payment_id.id, mask)]
  ELSE payment_id

\* the body of verify's loop once a candidate's challenge matched: Some(amount),
\* the amount a u64 in little-endian bytes, or None
accepted(proof, tx, output_index, address) ==
  IF output_index + 1 > Len(tx.outputs) THEN None
  ELSE
    LET output == tx.outputs[output_index + 1]
        shared_key_derivations ==
          output_derivations(
            IF address.guaranteed THEN Some(uniqueness(tx.inputs)) ELSE None,
            proof.ecdh, output_index)
        commitment ==
          decrypt(shared_key_derivations, tx.proofs.val.encrypted_amounts[output_index + 1])
    IN  IF /\ output.view_tag.tag = "Some"
           /\ output.view_tag.val # shared_key_derivations.view_tag
        THEN None
        ELSE IF /\ address.payment_id.tag = "Some"
                /\ tx.extra.payment_id.tag = "None"
        THEN None
        ELSE IF /\ address.payment_id.tag = "Some"
                /\ [kind |-> "Encrypted", id |-> address.payment_id.val] #
                     PaymentIdXor(tx.extra.payment_id.val, payment_id_xor(proof.ecdh))
        THEN None
        ELSE IF output.amount.tag = "Some" THEN Some(output.amount.val)
        ELSE IF ~(tx.version = 2 /\ tx.proofs.tag = "Some") THEN None
        ELSE IF output_index + 1 > Len(tx.proofs.val.encrypted_amounts) THEN None
        ELSE IF \/ output_index + 1 > Len(tx.proofs.val.commitments)
                \/ CommitmentCalculate(commitment) #
                     tx.proofs.val.commitments[output_index + 1]
        THEN None
        ELSE Some(commitment.amount)

\* while let Some(Some(key)) = keys.next() { if c == challenge(..) { .. return } }
RECURSIVE verify_loop(_, _, _, _, _, _, _)
verify_loop(proof, tx, output_index, address, message, keys, tried) ==
  IF Len(keys) = 0 THEN [result |-> None, tried |-> tried]
  ELSE LET t == reconstruct(proof, address, Head(keys), message)
       IN  IF proof.c = t.c
           THEN [result |-> accepted(proof, tx, output_index, address),
                 tried |-> Append(tried, t)]
           ELSE verify_loop(proof, tx, output_index, address, message,
                            Tail(keys), Append(tried, t))

\* verify. tx.extra is the parsed Extra, or None when Extra::read fails; the
\* record keeps the candidates tried besides the result.
verify(proof, tx, output_index, address, message) ==
  LET none == [result |-> None, tried |-> <<>>,
               commitment_generator |-> verify_commitment_generator(address)]
  IN  IF tx.extra_ok = FALSE THEN none
      ELSE IF Len(tx.extra.keys) = 0 THEN none
      ELSE LET r == verify_loop(proof, tx, output_index, address, message,
                                candidate_keys(tx.extra, output_index), <<>>)
           IN  [result |-> r.result, tried |-> r.tried,
                commitment_generator |-> verify_commitment_generator(address)]

\* (mutant) s written before c
write_proof_s_first(proof) ==
  LET signature == ScalarBytes(proof.s) \o ScalarBytes(proof.c)
  IN  encode(PointBytes(proof.ecdh)) \o encode(signature)

\* one proof of write's loop: the ecdh field, then the field of c and s
write_proof(proof) ==
  LET signature == ScalarBytes(proof.c) \o ScalarBytes(proof.s)
  IN  encode(PointBytes(proof.ecdh)) \o encode(signature)

RECURSIVE write_proofs(_, _)
write_proofs(proofs, i) ==
  IF i > Len(proofs) THEN <<>> ELSE write_proof(proofs[i]) \o write_proofs(proofs, i + 1)

write(proofs) == Str_OutProofV2 \o write_proofs(proofs, 1)

\* (mutant) the length of the prefix dropped whatever the string starts with
strip_prefix_unchecked(s, prefix) ==
  IF Len(s) >= Len(prefix) THEN Some(SubSeq(s, Len(prefix) + 1, Len(s))) ELSE None

\* str::strip_prefix
strip_prefix(s, prefix) ==
  IF Len(s) >= Len(prefix) /\ SubSeq(s, 1, Len(prefix)) = prefix
  THEN Some(SubSeq(s, Len(prefix) + 1, Len(s)))
  ELSE None

\* str::get(.. n): None past the end or inside a multi-byte character
str_get_to(s, n) ==
  IF n > Len(s) THEN None
  ELSE IF n < Len(s) /\ s[n + 1] \in 128..191 THEN None
  ELSE Some(SubSeq(s, 1, n))

\* the body of read's while loop, to the end of the string
RECURSIVE read_loop(_, _, _)
read_loop(proofs, res, oc) ==
  LET ecdh_len == encoded_len_for_bytes(32)
      signature_len == encoded_len_for_bytes(64)
      ecdh_str == str_get_to(proofs, ecdh_len)
      ecdh == decode(ecdh_str.val, oc)
      proofs1 == SubSeq(proofs, ecdh_len + 1, Len(proofs))
      signature_str == str_get_to(proofs1, signature_len)
      signature == decode(signature_str.val, oc)
      proofs2 == SubSeq(proofs1, signature_len + 1, Len(proofs1))
      point == read_point(ecdh.val)
      c == read_scalar(SubSeq(signature.val, 1, 32))
      s == read_scalar(SubSeq(signature.val, 33, Len(signature.val)))
  IN  IF Len(proofs) = 0 THEN Some(res)
      ELSE IF Len(proofs) < ecdh_len + signature_len THEN None
      ELSE IF ecdh_str.tag = "None" THEN None
      ELSE IF ecdh.tag # "Some" THEN ecdh
      ELSE IF signature_str.tag = "None" THEN None
      ELSE IF signature.tag # "Some" THEN signature
      ELSE IF point.tag = "None" THEN None
      ELSE IF Len(signature.val) < 32 THEN Panic
      ELSE IF c.tag = "None" THEN None
      ELSE IF s.tag = "None" THEN None
      ELSE read_loop(proofs2, Append(res, [ecdh |-> point.val, c |-> c.val, s |-> s.val]), oc)

read(proofs, oc) ==
  LET stripped == strip_prefix(proofs, Str_OutProofV2)
  IN  IF stripped.tag = "Some" THEN read_loop(stripped.val, <<>>, oc) ELSE Some(<<>>)

----------------------------------------------------------------------------
(* The three rounds of calls. Each specification runs one of them; the      *)
(* variables of the other two stay idle.                                     *)

IdleBase58 ==
  /\ b58_pc = "idle"
  /\ b58_in = <<>>
  /\ b58_text = <<>>
  /\ b58_tamper = "none"
  /\ b58_out = NotRun

IdleProof ==
  /\ pf_pc = "idle"
  /\ pf_in = <<>>
  /\ pf_prove = <<>>
  /\ pf_verify = <<>>

NoTamper == [kind |-> "none", at |-> 0, with |-> <<>>]

IdleSer ==
  /\ ser_pc = "idle"
  /\ ser_proofs = <<>>
  /\ ser_text = <<>>
  /\ ser_tamper = NoTamper
  /\ ser_out = NotRun

----------------------------------------------------------------------------
(* The codec round: encode, optionally damage the string, decode *)

MaxBytesLen == 40

\* byte strings of every length: all zero, all 0xFF, and two mixed fillings
SampleByte(k, i) ==
  CASE k = 0 -> 0
    [] k = 1 -> 255
    [] k = 2 -> (i * 37 + 11) % 256
    [] OTHER -> (255 + i * 197 - (i % 3) * 64) % 256

SampleBytes(k, n) == [i \in 1..n |-> SampleByte(k, i)]

\* characters put in place of, or after, a character of an encoding:
\* '1' (digit 0), 'z' (digit 57), 'Q' (digit 23), '2' (digit 1), and the
\* non-alphabet '0', 'l'
TamperChars == {49, 122, 81, 50, 48, 108}

AllAlphabet(s) == \A i \in 1..Len(s) : \E j \in 1..Len(ALPHABET) : ALPHABET[j] = s[i]

InitBase58 ==
  /\ overflow_checks \in BOOLEAN
  /\ b58_pc = "start"
  /\ b58_in \in {SampleBytes(k, n) : k \in 0..3, n \in 0..MaxBytesLen}
  /\ b58_text = <<>>
  /\ b58_tamper = "none"
  /\ b58_out = NotRun
  /\ IdleProof
  /\ IdleSer

Encode ==
  /\ b58_pc = "start"
  /\ b58_text' = encode(b58_in)
  /\ b58_pc' = "encoded"
  /\ UNCHANGED <<overflow_checks, b58_in, b58_tamper, b58_out, pf_vars, ser_vars>>

\* the caller hands decode a string that differs from an encoding in the first
\* or the last character of one of its chunks
ReplaceChar ==
  /\ b58_pc = "encoded"
  /\ \E i \in {j \in DOMAIN b58_text : j % ENCODED_BLOCK_LEN \in {0, 1} \/ j = Len(b58_text)},
        ch \in TamperChars :
       /\ b58_text[i] # ch
       /\ b58_text' = [b58_text EXCEPT ![i] = ch]
  /\ b58_tamper' = "replaced"
  /\ b58_pc' = "tampered"
  /\ UNCHANGED <<overflow_checks, b58_in, b58_out, pf_vars, ser_vars>>

\* the caller hands decode an encoding with one more character
AppendChar ==
  /\ b58_pc = "encoded"
  /\ \E ch \in TamperChars : b58_text' = Append(b58_text, ch)
  /\ b58_tamper' = "appended"
  /\ b58_pc' = "tampered"
  /\ UNCHANGED <<overflow_checks, b58_in, b58_out, pf_vars, ser_vars>>

\* the caller hands decode an encoding without its last character
DropChar ==
  /\ b58_pc = "encoded"
  /\ Len(b58_text) > 0
  /\ b58_text' = SubSeq(b58_text, 1, Len(b58_text) - 1)
  /\ b58_tamper' = "dropped"
  /\ b58_pc' = "tampered"
  /\ UNCHANGED <<overflow_checks, b58_in, b58_out, pf_vars, ser_vars>>

Decode ==
  /\ b58_pc \in {"encoded", "tampered"}
  /\ b58_out' = decode(b58_text, overflow_checks)
  /\ b58_pc' = "decoded"
  /\ UNCHANGED <<overflow_checks, b58_in, b58_text, b58_tamper, pf_vars, ser_vars>>

NextBase58 == Encode \/ ReplaceChar \/ AppendChar \/ DropChar \/ Decode

SpecBase58 == InitBase58 /\ [][NextBase58]_vars

----------------------------------------------------------------------------
(* The proof round: prove for an address, verify against a transaction      *)
(* whose output was built for that address                                   *)

SampleAddresses ==
  [spend : {3}, view : {5}, subaddress : BOOLEAN, guaranteed : BOOLEAN,
   payment_id : {None, Some(<<1, 2, 3, 4, 5, 6, 7, 8>>)}]

SampleEphemeralKeys == {2, 4}

SampleNonces == {1, 6, 11}

SampleMessages == {<<>>, <<109, 115, 103>>}

\* a u64 in little-endian bytes
SampleAmount == <<5, 0, 0, 0, 0, 0, 0, 0>>

\* the generator of the transaction key as the design states it
SpecGenerator(address) ==
  IF address.subaddress THEN address.spend ELSE ED25519_BASEPOINT_POINT

\* The transaction a sender holding ephemeral_key builds for address: the output
\* at output_index carries the view tag, the encrypted amount and the commitment
\* derived from ecdh = ephemeral_key * view; form is the shape of the amount
\* ("plain": a v1 / miner output, "compact", "original"), tx_key the transaction
\* public key and where the extra carries it.
HonestTx(address, ephemeral_key, amount, form, tx_key, placement, output_index) ==
  LET ecdh == PointMul(address.view, ephemeral_key)
      inputs == IF form = "plain" THEN <<[kind |-> "Gen", height |-> 300]>>
                ELSE <<[kind |-> "ToKey", key_image |-> 9], [kind |-> "ToKey", key_image |-> 4]>>
      d == output_derivations(
             IF address.guaranteed THEN Some(uniqueness(inputs)) ELSE None,
             ecdh, output_index)
      mine == [amount |-> IF form = "plain" THEN Some(amount) ELSE None,
               view_tag |-> IF form = "original" THEN None ELSE Some(d.view_tag)]
      other == [amount |-> IF form = "plain" THEN Some(<<9, 9, 0, 0, 0, 0, 0, 0>>) ELSE None,
                view_tag |-> IF form = "original" THEN None ELSE Some((d.view_tag + 1) % 256)]
      mask_shared_sec == keccak256(ScalarBytes(d.shared_key))
      original_mask == 7
      enc == IF form = "compact"
             THEN [kind |-> "Compact", amount |-> compact_amount_encryption(d, amount)]
             ELSE [kind |-> "Original",
                   mask |-> ScalarBytes((original_mask + from_bytes_mod_order(mask_shared_sec))
                                          % ScalarOrder),
                   amount |-> ScalarBytes((from_bytes_mod_order(amount)
                                             + from_bytes_mod_order(keccak256(mask_shared_sec)))
                                            % ScalarOrder)]
      commitment == CommitmentCalculate(
                      [mask |-> IF form = "compact" THEN commitment_mask(d) ELSE original_mask,
                       amount |-> amount])
      other_enc == [kind |-> "Compact", amount |-> <<1, 1, 1, 1, 1, 1, 1, 1>>]
      at(x, y) == IF output_index = 0 THEN <<x, y>> ELSE <<y, x>>
  IN  [version |-> IF form = "plain" THEN 1 ELSE 2,
       inputs |-> inputs,
       extra_ok |-> TRUE,
       extra |-> [keys |-> IF placement = "primary" THEN <<tx_key>> ELSE <<10>>,
                  additional |-> IF placement = "primary" THEN None ELSE Some(at(tx_key, 8)),
                  payment_id |-> IF address.payment_id.tag = "Some"
                                 THEN Some([kind |-> "Encrypted",
                                            id |-> XorBytes(address.payment_id.val,
                                                            payment_id_xor(ecdh))])
                                 ELSE None],
       outputs |-> at(mine, other),
       proofs |-> IF form = "plain" THEN None
                  ELSE Some([encrypted_amounts |-> at(enc, other_enc),
                             commitments |-> at(commitment, 2)])]

InitProof ==
  /\ overflow_checks = TRUE
  /\ pf_pc = "start"
  /\ \E address \in SampleAddresses, ephemeral_key \in SampleEphemeralKeys,
        message \in SampleMessages, form \in {"plain", "compact", "original"},
        generator \in {"base", "spend"}, placement \in {"primary", "additional"},
        output_index \in {0, 1} :
       LET tx_key == PointMul(IF generator = "base" THEN ED25519_BASEPOINT_POINT
                              ELSE address.spend, ephemeral_key)
       IN  pf_in = [address |-> address, ephemeral_key |-> ephemeral_key,
                    message |-> message, amount |-> SampleAmount, tx_key |-> tx_key,
                    output_index |-> output_index,
                    tx |-> HonestTx(address, ephemeral_key, SampleAmount, form, tx_key,
                                    placement, output_index)]
  /\ pf_prove = <<>>
  /\ pf_verify = <<>>
  /\ IdleBase58
  /\ IdleSer

Prove ==
  /\ pf_pc = "start"
  /\ \E nonce \in SampleNonces :
       pf_prove' = prove(nonce, pf_in.address, pf_in.ephemeral_key, pf_in.message)
  /\ pf_pc' = "proved"
  /\ UNCHANGED <<overflow_checks, pf_in, pf_verify, b58_vars, ser_vars>>

Verify ==
  /\ pf_pc = "proved"
  /\ pf_verify' = verify(pf_prove.proof, pf_in.tx, pf_in.output_index, pf_in.address,
                         pf_in.message)
  /\ pf_pc' = "verified"
  /\ UNCHANGED <<overflow_checks, pf_in, pf_prove, b58_vars, ser_vars>>

NextProof == Prove \/ Verify

SpecProof == InitProof /\ [][NextProof]_vars

----------------------------------------------------------------------------
(* The serialization round: prove a list of proofs, write it, optionally     *)
(* damage the string, read it                                                *)

MaxProofs == 5

MaxDamagedProofs == 1

\* the calls of prove that fill the list
SampleProofs ==
  {prove(6, [spend |-> 3, view |-> 5, subaddress |-> FALSE, guaranteed |-> FALSE,
             payment_id |-> None], 2, <<>>).proof,
   prove(1, [spend |-> 3, view |-> 5, subaddress |-> TRUE, guaranteed |-> FALSE,
             payment_id |-> None], 4, <<>>).proof}

HasPrefix(s) == Len(s) >= 10 /\ SubSeq(s, 1, 10) = Str_OutProofV2

InitSer ==
  /\ overflow_checks \in BOOLEAN
  /\ ser_pc = "build"
  /\ ser_proofs = <<>>
  /\ ser_text = <<>>
  /\ ser_tamper = NoTamper
  /\ ser_out = NotRun
  /\ IdleBase58
  /\ IdleProof

PushProof(max) ==
  /\ ser_pc = "build"
  /\ Len(ser_proofs) < max
  /\ \E proof \in SampleProofs : ser_proofs' = Append(ser_proofs, proof)
  /\ UNCHANGED <<overflow_checks, ser_pc, ser_text, ser_tamper, ser_out, b58_vars, pf_vars>>

Write ==
  /\ ser_pc = "build"
  /\ ser_text' = write(ser_proofs)
  /\ ser_pc' = "written"
  /\ UNCHANGED <<overflow_checks, ser_proofs, ser_tamper, ser_out, b58_vars, pf_vars>>

\* the string reaches read with another prefix, half a prefix, or none
OtherPrefixes ==
  {<<>>, <<79, 117, 116, 80, 114, 111, 111, 102, 86, 49>>,
   <<79, 117, 116, 80, 114, 111, 111, 102>>,
   <<111, 117, 116, 80, 114, 111, 111, 102, 86, 50>>}

ReplacePrefix ==
  /\ ser_pc = "written"
  /\ \E prefix \in OtherPrefixes :
       /\ ser_text' = prefix \o SubSeq(ser_text, 11, Len(ser_text))
       /\ ser_tamper' = [kind |-> "prefix", at |-> 0, with |-> prefix]
  /\ ser_pc' = "tampered"
  /\ UNCHANGED <<overflow_checks, ser_proofs, ser_out, b58_vars, pf_vars>>

\* the string reaches read cut short inside its last proof
Truncate ==
  /\ ser_pc = "written"
  /\ Len(ser_proofs) > 0
  /\ \E k \in {1, 88, 131} :
       /\ ser_text' = SubSeq(ser_text, 1, Len(ser_text) - k)
       /\ ser_tamper' = [kind |-> "truncated", at |-> k, with |-> <<>>]
  /\ ser_pc' = "tampered"
  /\ UNCHANGED <<overflow_checks, ser_proofs, ser_out, b58_vars, pf_vars>>

\* what may follow the well-formed proofs: a single character; a field of 'z'
\* (the chunk value overflows in the multiplication); a field of '1' (bytes that
\* are no point); a point and a scalar that is not reduced; a field whose first
\* chunk overflows in the addition of its last digit; a proof with a character
\* outside the alphabet
BadRemainders ==
  LET good == CHOOSE proof \in SampleProofs : TRUE
      field(ch, n) == [i \in 1..n |-> ch]
      add_overflow == <<106, 112, 88, 67, 90, 101, 100, 71, 102, 86, 122>>
  IN  [short |-> <<49>>,
       mul_overflow |-> field(122, 132),
       no_point |-> field(49, 132),
       unreduced |-> encode(PointBytes(good.ecdh))
                       \o encode(ScalarBytes(ScalarOrder) \o ScalarBytes(good.s)),
       add_overflow |-> add_overflow \o field(49, 121),
       no_alphabet |-> [write_proof(good) EXCEPT ![50] = 48]]

AppendRemainder ==
  /\ ser_pc = "written"
  /\ \E k \in DOMAIN BadRemainders :
       /\ ser_text' = ser_text \o BadRemainders[k]
       /\ ser_tamper' = [kind |-> "remainder", at |-> Len(ser_text), with |-> k]
  /\ ser_pc' = "tampered"
  /\ UNCHANGED <<overflow_checks, ser_proofs, ser_out, b58_vars, pf_vars>>

\* what replaces one character of a proof: the alphabet characters one, two and
\* fifty-six digits further, '1', 'z', the ASCII characters '0' and 'l' that the
\* alphabet leaves out, and a two-byte character
Replacements(ch) ==
  LET pos == position(ch)
  IN  ({<<ALPHABET[((pos + k) % ALPHABET_LEN) + 1]>> : k \in {1, 2, 56}}
         \cup {<<49>>, <<122>>, <<48>>, <<108>>, <<195, 169>>}) \ {<<ch>>}

ReplaceProofChar ==
  /\ ser_pc = "written"
  /\ \E i \in 11..Len(ser_text) :
       \E rep \in Replacements(ser_text[i]) :
         /\ ser_text' = SubSeq(ser_text, 1, i - 1) \o rep \o SubSeq(ser_text, i + 1, Len(ser_text))
         /\ ser_tamper' = [kind |-> "replaced", at |-> i, with |-> rep]
  /\ ser_pc' = "tampered"
  /\ UNCHANGED <<overflow_checks, ser_proofs, ser_out, b58_vars, pf_vars>>

Read ==
  /\ ser_pc \in {"written", "tampered"}
  /\ ser_out' = read(ser_text, overflow_checks)
  /\ ser_pc' = "read"
  /\ UNCHANGED <<overflow_checks, ser_proofs, ser_text, ser_tamper, b58_vars, pf_vars>>

NextSer ==
  PushProof(MaxProofs) \/ Write \/ ReplacePrefix \/ Truncate \/ AppendRemainder \/ Read

SpecSer == InitSer /\ [][NextSer]_vars

NextDamage == PushProof(MaxDamagedProofs) \/ Write \/ ReplaceProofChar \/ Read

SpecDamage == InitSer /\ [][NextDamage]_vars

----------------------------------------------------------------------------
(* Properties of the codec round, under SpecBase58 *)

\* C3: decoding the encoding of a byte string of length 0 to MaxBytesLen
\* succeeds and gives back exactly that byte string.
C3_DecodeEncodeRoundTrip ==
  (b58_pc = "decoded" /\ b58_tamper = "none") => b58_out = Some(b58_in)

\* a byte string of four whole blocks and a partial block went round
C3_Witness ==
  /\ b58_pc = "decoded"
  /\ b58_tamper = "none"
  /\ Len(b58_in) = 37
  /\ b58_in[1] = 255
  /\ b58_out = Some(b58_in)

\* the value of a chunk of alphabet characters, value = value * 58 + digit, in
\* nine bytes: it passed the 64-bit maximum iff the top byte is not zero
RECURSIVE WideValue(_, _, _)
WideValue(chunk, i, value) ==
  IF i > Len(chunk) THEN value
  ELSE WideValue(chunk, i + 1, MulAdd(value, ALPHABET_LEN, position(chunk[i])).v)

ExceedsU64(chunk) == WideValue(chunk, 1, [i \in 1..9 |-> 0])[1] # 0

SomeChunkExceedsU64(s) ==
  \E k \in 0..((Len(s) - 1) \div ENCODED_BLOCK_LEN) :
    LET last == IF (k + 1) * ENCODED_BLOCK_LEN < Len(s)
                THEN (k + 1) * ENCODED_BLOCK_LEN ELSE Len(s)
    IN  ExceedsU64(SubSeq(s, k * ENCODED_BLOCK_LEN + 1, last))

\* C4: a string of alphabet characters with a chunk whose value exceeds the
\* 64-bit maximum, in the multiplication or in the addition of a digit, decodes
\* to the decode failure (None): no abort, no bytes of a wrapped value.
C4_OverflowIsDecodeFailure ==
  (b58_pc = "decoded" /\ AllAlphabet(b58_text) /\ SomeChunkExceedsU64(b58_text))
    => b58_out = None

\* the length of the last chunk of a non-empty string
FinalChunkLen(s) == ((Len(s) - 1) % ENCODED_BLOCK_LEN) + 1

\* C10: a string of alphabet characters whose final chunk has a length that no
\* byte count in 1..8 encodes to decodes to the decode failure (None): no abort,
\* no bytes of the earlier chunks.
C10_UnencodableFinalChunkIsDecodeFailure ==
  (/\ b58_pc = "decoded"
   /\ Len(b58_text) > 0
   /\ AllAlphabet(b58_text)
   /\ ~SomeChunkExceedsU64(b58_text)
   /\ \A n \in 1..BLOCK_LEN : encoded_len_for_bytes(n) # FinalChunkLen(b58_text))
    => b58_out = None

----------------------------------------------------------------------------
(* Properties of the proof round, under SpecProof *)

\* C1: verify of the proof prove made, with the same address, message,
\* transaction and output index, the transaction carrying the key
\* generator * ephemeral_key and an output built for the address, returns the
\* amount of that output.
C1_VerifyOfProveReturnsAmount ==
  (/\ pf_pc = "verified"
   /\ pf_in.tx_key = PointMul(SpecGenerator(pf_in.address), pf_in.ephemeral_key))
    => pf_verify.result = Some(pf_in.amount)

\* C8: prove and verify both take the base point as generator for an address
\* that is no subaddress, and the spend key of the address for a subaddress.
C8_GeneratorByAddressKind ==
  pf_pc = "verified"
    => /\ pf_prove.commitment_generator = SpecGenerator(pf_in.address)
       /\ pf_verify.commitment_generator = SpecGenerator(pf_in.address)

\* C9: for the candidate key generator * ephemeral_key, verify rebuilds the nonce
\* commitments prove hashed, X' = generator * nonce and Y' = view * nonce, so the
\* challenge it recomputes is the proof's c.
C9_VerifyRebuildsNonceCommitments ==
  pf_pc = "verified"
    => \A i \in DOMAIN pf_verify.tried :
         pf_verify.tried[i].key = pf_prove.ephemeral_key_commitment
           => /\ pf_verify.tried[i].X = pf_prove.nonce_commitment_generator
              /\ pf_verify.tried[i].Y = pf_prove.nonce_commitment_view_key
              /\ pf_verify.tried[i].c = pf_prove.proof.c

----------------------------------------------------------------------------
(* Properties of the serialization round, under SpecSer and SpecDamage *)

\* C2: reading the string written for a list of 0 to MaxProofs proofs of prove
\* gives back the same list: as many proofs, in the same order, with the same
\* ecdh, c and s.
C2_ReadWriteRoundTrip ==
  (ser_pc = "read" /\ ser_tamper.kind = "none") => ser_out = Some(ser_proofs)

\* a list of five proofs, not all the same, went round
C2_Witness ==
  /\ ser_pc = "read"
  /\ ser_tamper.kind = "none"
  /\ Len(ser_proofs) = 5
  /\ ser_proofs[1] # ser_proofs[2]
  /\ ser_proofs[1].c # ser_proofs[1].s
  /\ ser_out = Some(ser_proofs)

\* C5 as stated: with one character after the prefix replaced by any other
\* character, read fails for the whole string.
C5_AnyReplacementFails ==
  (ser_pc = "read" /\ ser_tamper.kind = "replaced") => ser_out = None

\* C5 as amended: with one character after the prefix replaced by a character
\* outside the base58 alphabet read fails for the whole string; with it replaced
\* by any other character read never returns the list that was written.
C5_ReplacementNeverReadsBack ==
  (ser_pc = "read" /\ ser_tamper.kind = "replaced")
    => /\ ser_out # Some(ser_proofs)
       /\ ~AllAlphabet(ser_tamper.with) => ser_out = None

\* a character of the field of c and s was replaced by one outside the
\* alphabet, and read failed
C5_Witness ==
  /\ ser_pc = "read"
  /\ ser_tamper.kind = "replaced"
  /\ ser_tamper.at > 60
  /\ ser_tamper.with = <<48>>
  /\ ser_out = None

\* C6: a string that does not begin with OutProofV2, the empty string and a
\* string with proof fields after another prefix included, reads as the empty
\* list of proofs, not as a failure.
C6_MissingPrefixReadsEmptyList ==
  (ser_pc = "read" /\ ~HasPrefix(ser_text)) => ser_out = Some(<<>>)

\* the fields of two proofs after the prefix OutProofV1 read as the empty list
C6_Witness ==
  /\ ser_pc = "read"
  /\ ser_tamper.kind = "prefix"
  /\ Len(ser_tamper.with) = 10
  /\ ~HasPrefix(ser_text)
  /\ Len(ser_proofs) = 2
  /\ ser_out = Some(<<>>)

\* C7: the prefix, well-formed proofs and then a remainder that is too short for
\* a proof, or whose fields fail base58, point or scalar decoding, reads as the
\* failure (None): never as the list of the proofs before the remainder.
C7_MalformedRemainderFails ==
  (ser_pc = "read" /\ ser_tamper.kind \in {"truncated", "remainder"}) => ser_out = None

====
